---- MODULE Spec2Model ----
(***************************************************************************)
(* The job-application form of src/src/App.tsx: the React component App,   *)
(* its five pieces of state, its event handlers, and the one asynchronous  *)
(* createContact call of handleSubmit.                                     *)
(*                                                                         *)
(* JavaScript strings whose characters the code looks at (the form values, *)
(* file names, the reference code, the confirmation URL) are sequences of  *)
(* one-character strings.  Messages that are only stored and shown are     *)
(* TLA+ strings.                                                           *)
(***************************************************************************)
EXTENDS Integers, Sequences, FiniteSets, TLC

VARIABLES
    formData,      \* useState at App.tsx:6    field name -> string
    isSubmitting,  \* useState at App.tsx:23
    error,         \* useState at App.tsx:24   NULL or a message
    uploadedFile,  \* useState at App.tsx:25   NULL or a File
    isDragging,    \* useState at App.tsx:26
    inFlight,      \* createContact calls awaited at App.tsx:162, each with the
                   \* formData its handleSubmit run closed over
    location,      \* window.location.href as assigned at App.tsx:163, or NULL
    inputEvents,   \* number of input-change events delivered so far
    call           \* the last direct call of a pure helper (PureSpec only)

vars == <<formData, isSubmitting, error, uploadedFile, isDragging,
          inFlight, location, inputEvents, call>>

NULL == "null"

-----------------------------------------------------------------------------
(* Bounds of the model                                                     *)

\* input-change events delivered in one behaviour
MaxInputEvents == 1

-----------------------------------------------------------------------------
(* Strings                                                                 *)

UpperToLower ==
    [c \in {"A", "C", "D", "F", "O", "P", "X"} |->
        CASE c = "A" -> "a" [] c = "C" -> "c" [] c = "D" -> "d" [] c = "F" -> "f"
          [] c = "O" -> "o" [] c = "P" -> "p" [] c = "X" -> "x"]

\* String.prototype.toLowerCase
toLowerCase(s) ==
    [i \in DOMAIN s |-> IF s[i] \in DOMAIN UpperToLower THEN UpperToLower[s[i]] ELSE s[i]]

\* String.prototype.includes, for a one-character needle
includes(s, c) == \E i \in DOMAIN s : s[i] = c

\* s.split('.').pop(): the text after the last '.', the whole of s when it has none
splitPop(s) ==
    LET dots == {i \in DOMAIN s : s[i] = "."}
        last == IF dots = {} THEN 0 ELSE CHOOSE i \in dots : \A j \in dots : j <= i
    IN SubSeq(s, last + 1, Len(s))

\* a JavaScript string is falsy exactly when it is empty
Falsy(s) == Len(s) = 0

Digit(d) == CASE d = 0 -> "0" [] d = 1 -> "1" [] d = 2 -> "2" [] d = 3 -> "3"
              [] d = 4 -> "4" [] d = 5 -> "5" [] d = 6 -> "6" [] d = 7 -> "7"
              [] d = 8 -> "8" [] d = 9 -> "9"

\* Number.prototype.toString of a non-negative integer
RECURSIVE toString(_)
toString(n) == IF n < 10 THEN <<Digit(n)>> ELSE toString(n \div 10) \o <<Digit(n % 10)>>

\* String.prototype.padStart(len, c)
RECURSIVE padStart(_, _, _)
padStart(s, len, c) == IF Len(s) >= len THEN s ELSE padStart(<<c>> \o s, len, c)

\* the characters encodeURIComponent leaves alone (those the model's inputs use)
Unreserved == {"a", "b", "c", "d", "e", "f", "y", "s", ".", "-", "_"}

\* the UTF-8 percent-encoding of the other characters of the model's inputs
PercentEncoded(c) ==
    CASE c = "@" -> <<"%", "4", "0">>
      [] c = "+" -> <<"%", "2", "B">>
      [] c = " " -> <<"%", "2", "0">>

RECURSIVE encodeURIComponent(_)
encodeURIComponent(s) ==
    IF s = <<>> THEN <<>>
    ELSE (IF Head(s) \in Unreserved THEN <<Head(s)>> ELSE PercentEncoded(Head(s)))
         \o encodeURIComponent(Tail(s))

-----------------------------------------------------------------------------
(* Form state                                                              *)

Fields == {"firstName", "lastName", "email", "over18", "dataEntryExperience",
           "experienceDescription", "accessibility", "hoursPerWeek", "hasComputer",
           "rightToWork", "criminalConvictions", "dbsCheck", "englishFluency",
           "otherLanguages", "selfDescription"}

\* the state useState is given at mount
BlankForm == [f \in Fields |-> <<>>]

requiredFields == {"firstName", "lastName", "email", "over18", "dataEntryExperience",
                   "accessibility", "hoursPerWeek", "hasComputer", "rightToWork",
                   "criminalConvictions", "dbsCheck", "englishFluency",
                   "selfDescription"}

\* the values the model's input events carry
Yes == <<"y", "e", "s">>
EmailNoAt == <<"a", "b">>
EmailPlain == <<"a", "@", "b">>
EmailPlus == <<"a", "+", "c", "@", "b">>
Hours20 == <<"2", "0">>
Hours50 == <<"5", "0">>
Hours15 == <<"1", "5">>

\* a form every required field of which is filled in
FilledForm ==
    [f \in Fields |->
        CASE f = "email" -> EmailPlain
          [] f = "hoursPerWeek" -> Hours20
          [] f \in {"experienceDescription", "otherLanguages"} -> <<>>
          [] OTHER -> Yes]

\* what an input element named f can report as its value
InputValues(f) ==
    CASE f = "email" -> {<<>>, EmailNoAt, EmailPlain, EmailPlus}
      [] f = "hoursPerWeek" -> {<<>>, Hours20, Hours50, Hours15}
      [] OTHER -> {<<>>, Yes}

-----------------------------------------------------------------------------
(* Pure helpers                                                            *)

RandomRange == 100000
PadLength == 5

generateReferenceNumber_nopad(n) == <<"E", "D", "I">> \o toString(n)

\* n is Math.floor(Math.random() * 100000)
generateReferenceNumber(n) ==
    LET randomNum == padStart(toString(n), PadLength, "0")
    IN <<"E", "D", "I">> \o randomNum

\* JavaScript values a property lookup can give
JSString(s) == [type |-> "string", value |-> s]
JSUndefined == [type |-> "undefined", value |-> <<>>]
JSFunction(name) == [type |-> "function", value |-> name]

Truthy(v) == \/ v.type = "function"
             \/ v.type = "string" /\ ~Falsy(v.value)

\* the own properties of the object literal amountMap
amountMap ==
    [k \in {<<"1", "0">>, <<"2", "0">>, <<"3", "0">>, <<"4", "0">>, <<"5", "0">>} |->
        CASE k = <<"1", "0">> -> <<"£", "1", "6", "5">>
          [] k = <<"2", "0">> -> <<"£", "3", "3", "0">>
          [] k = <<"3", "0">> -> <<"£", "4", "9", "5">>
          [] k = <<"4", "0">> -> <<"£", "6", "6", "0">>
          [] k = <<"5", "0">> -> <<"£", "8", "2", "5">>]

\* properties every object literal inherits from Object.prototype
ObjectPrototype ==
    {<<"c", "o", "n", "s", "t", "r", "u", "c", "t", "o", "r">>,
     <<"t", "o", "S", "t", "r", "i", "n", "g">>,
     <<"v", "a", "l", "u", "e", "O", "f">>}

\* amountMap[hours]: own property, else inherited property, else undefined
amountMapGet(hours) ==
    IF hours \in DOMAIN amountMap THEN JSString(amountMap[hours])
    ELSE IF hours \in ObjectPrototype THEN JSFunction(hours)
    ELSE JSUndefined

getAmountFromHours(hours) ==
    LET v == amountMapGet(hours)
    IN IF Truthy(v) THEN v ELSE JSString(<<>>)

-----------------------------------------------------------------------------
(* Validation                                                              *)

EmailInvalidMsg == "Please enter a valid email address"
MissingFieldsMsg == "Please fill in all required fields"

validateForm_noEmailCheck(fd) ==
    LET missingFields == {field \in requiredFields : Falsy(fd[field])}
    IN IF missingFields # {} THEN MissingFieldsMsg ELSE NULL

validateForm_noRequiredCheck(fd) ==
    IF ~includes(fd["email"], "@") THEN EmailInvalidMsg ELSE NULL

\* NULL when validateForm returns, the message of the Error when it throws
validateForm(fd) ==
    IF ~includes(fd["email"], "@") THEN EmailInvalidMsg
    ELSE LET missingFields == {field \in requiredFields : Falsy(fd[field])}
         IN IF Cardinality(missingFields) > 0 THEN MissingFieldsMsg ELSE NULL

-----------------------------------------------------------------------------
(* Files                                                                   *)

None == <<>>
Some(x) == <<x>>

MaxFileSize == 10 * 1024 * 1024

FileSizeMsg == "File size must be less than 10MB"
FileTypeMsg == "Only PDF, DOC, or DOCX files are allowed"

Pdf == <<"p", "d", "f">>
Doc == <<"d", "o", "c">>
Docx == <<"d", "o", "c", "x">>
AllowedTypes == {Pdf, Doc, Docx}

\* the file names and sizes the model's pickers and drops carry
FileNames == {<<"a", ".">> \o Pdf, <<"A", ".", "P", "D", "F">>, <<"a", ".">> \o Doc,
              <<"a", ".">> \o Docx, <<"a", ".", "e", "x", "e">>, Pdf}
FileSizes == {MaxFileSize, MaxFileSize + 1}
Files == [name : FileNames, size : FileSizes]

\* file.name.toLowerCase().split('.').pop()
fileTypeOf(name) == splitPop(toLowerCase(name))

sizeRejected(file) == file.size > MaxFileSize

\* the state validateAndSetFile leaves in error and uploadedFile
validateAndSetFile(file) ==
    IF sizeRejected(file)
    THEN [error |-> FileSizeMsg, uploadedFile |-> None]
    ELSE IF fileTypeOf(file.name) \notin AllowedTypes
    THEN [error |-> FileTypeMsg, uploadedFile |-> None]
    ELSE [error |-> NULL, uploadedFile |-> Some(file)]

-----------------------------------------------------------------------------
(* The remote call                                                         *)

ListId == 7
ConfirmationBase == "https://exactdatainput.uk/application-submitted?email="
GenericConnMsg ==
    "Unable to connect to the server. Please check your internet connection and try again."
FallbackMsg == "There was an error submitting your application. Please try again."

BuildContact_amountIsHours(fd, referenceNumber) ==
    [email |-> fd["email"],
     attributes |-> [FIRSTNAME |-> fd["firstName"],
                     LASTNAME |-> fd["lastName"],
                     HOURS |-> fd["hoursPerWeek"],
                     AMOUNT |-> JSString(fd["hoursPerWeek"]),
                     UNIQUE |-> referenceNumber],
     listIds |-> <<ListId>>]

\* the CreateContact object handleSubmit fills in
BuildContact(fd, referenceNumber) ==
    [email |-> fd["email"],
     attributes |-> [FIRSTNAME |-> fd["firstName"],
                     LASTNAME |-> fd["lastName"],
                     HOURS |-> fd["hoursPerWeek"],
                     AMOUNT |-> getAmountFromHours(fd["hoursPerWeek"]),
                     UNIQUE |-> referenceNumber],
     listIds |-> <<ListId>>]

ConfirmationUrl_currentEmail(fd) ==
    <<ConfirmationBase>> \o encodeURIComponent(formData["email"])

\* the template literal assigned to window.location.href
ConfirmationUrl(fd) == <<ConfirmationBase>> \o encodeURIComponent(fd["email"])

\* response bodies a failed call can carry
TextWithMessage == "{\"message\":\"Contact already exist\"}"
TextWithoutMessage == "{\"code\":\"unauthorized\"}"
TextNull == "null"
TextHtml == "<html>502 Bad Gateway</html>"
TextEmpty == ""
ResponseTexts == {TextWithMessage, TextWithoutMessage, TextNull, TextHtml, TextEmpty}

\* what createContact's promise can reject with: an error without a response
\* (the request never completed) or one carrying the response's text
ApiErrors == {[hasResponse |-> FALSE, text |-> TextEmpty]}
             \cup [hasResponse : {TRUE}, text : ResponseTexts]

SyntaxErrorMsg == "Unexpected token < in JSON at position 0"
TypeErrorMsg == "Cannot read properties of null (reading 'message')"

\* JSON.parse on the response bodies above
JSONparse(text) ==
    CASE text = TextWithMessage ->
           [threw |-> FALSE, isNull |-> FALSE, hasMessage |-> TRUE,
            message |-> "Contact already exist"]
      [] text = TextWithoutMessage ->
           [threw |-> FALSE, isNull |-> FALSE, hasMessage |-> FALSE, message |-> ""]
      [] text = TextNull ->
           [threw |-> FALSE, isNull |-> TRUE, hasMessage |-> FALSE, message |-> ""]
      [] OTHER ->
           [threw |-> TRUE, isNull |-> FALSE, hasMessage |-> FALSE,
            message |-> SyntaxErrorMsg]

\* the inner catch block: the message of the Error that leaves it
innerCatch(apiError) ==
    IF apiError.hasResponse /\ apiError.text # ""
    THEN LET parsed == JSONparse(apiError.text)
         IN IF parsed.threw THEN parsed.message
            ELSE IF parsed.isNull THEN TypeErrorMsg
            ELSE IF parsed.hasMessage THEN parsed.message
            ELSE ""
    ELSE GenericConnMsg

\* the outer catch block: what setError is given for a thrown value
outerCatch(thrown) == IF thrown.isError THEN thrown.message ELSE FallbackMsg

-----------------------------------------------------------------------------
(* The component                                                           *)

NoLocation == <<>>
NoCall == [fn |-> "none"]

\* the samples of Math.floor(Math.random() * 100000) handleSubmit draws in Spec
RandomSamples == {42, 12345}

\* the page is still the form: nothing has navigated away
OnPage == location = NoLocation

Mounted ==
    /\ isSubmitting = FALSE
    /\ error = NULL
    /\ uploadedFile = None
    /\ isDragging = FALSE
    /\ inFlight = <<>>
    /\ location = NoLocation
    /\ inputEvents = 0
    /\ call = NoCall

\* the form as mounted, or as an applicant has filled it in
Init ==
    /\ formData \in {BlankForm, FilledForm}
    /\ Mounted

handleInputChange(name, value) ==
    /\ OnPage
    /\ inputEvents < MaxInputEvents
    /\ inputEvents' = inputEvents + 1
    /\ formData' = [formData EXCEPT ![name] = value]
    /\ error' = NULL
    /\ UNCHANGED <<isSubmitting, uploadedFile, isDragging, inFlight, location, call>>

\* files is e.target.files?.[0]: None when the picker was cancelled.  The
\* input element is rendered only while no file is held.
handleFileChange(file) ==
    /\ OnPage
    /\ uploadedFile = None
    /\ IF file # None
       THEN LET r == validateAndSetFile(file[1])
            IN /\ error' = r.error
               /\ uploadedFile' = r.uploadedFile
       ELSE UNCHANGED <<error, uploadedFile>>
    /\ UNCHANGED <<formData, isSubmitting, isDragging, inFlight, location,
                   inputEvents, call>>

\* the Remove button, rendered only while a file is held
removeFile ==
    /\ OnPage
    /\ uploadedFile # None
    /\ uploadedFile' = None
    /\ UNCHANGED <<formData, isSubmitting, error, isDragging, inFlight, location,
                   inputEvents, call>>

handleDragEnter ==
    /\ OnPage
    /\ isDragging' = TRUE
    /\ UNCHANGED <<formData, isSubmitting, error, uploadedFile, inFlight, location,
                   inputEvents, call>>

handleDragLeave_toggle ==
    /\ OnPage
    /\ isDragging' = ~isDragging
    /\ UNCHANGED <<formData, isSubmitting, error, uploadedFile, inFlight, location,
                   inputEvents, call>>

handleDragLeave ==
    /\ OnPage
    /\ isDragging' = FALSE
    /\ UNCHANGED <<formData, isSubmitting, error, uploadedFile, inFlight, location,
                   inputEvents, call>>

handleDragOver ==
    /\ OnPage
    /\ UNCHANGED vars

\* file is e.dataTransfer.files?.[0]: None when what was dropped is no file
handleDrop(file) ==
    /\ OnPage
    /\ isDragging' = FALSE
    /\ IF file # None
       THEN LET r == validateAndSetFile(file[1])
            IN /\ error' = r.error
               /\ uploadedFile' = r.uploadedFile
       ELSE UNCHANGED <<error, uploadedFile>>
    /\ UNCHANGED <<formData, isSubmitting, inFlight, location, inputEvents, call>>

submitIgnored_never == FALSE

\* the latch check at the top of handleSubmit
submitIgnored == isSubmitting

finallyIsSubmitting_skipped == TRUE

\* the finally block of handleSubmit
finallyIsSubmitting == FALSE

\* handleSubmit up to its await: the latch, validateForm, and the createContact
\* call; n is the random integer generateReferenceNumber draws
handleSubmit(n) ==
    /\ OnPage
    /\ IF submitIgnored
       THEN UNCHANGED vars
       ELSE LET thrown == validateForm(formData)
            IN IF thrown # NULL
               THEN /\ error' = outerCatch([isError |-> TRUE, message |-> thrown])
                    /\ isSubmitting' = finallyIsSubmitting
                    /\ UNCHANGED inFlight
               ELSE /\ error' = NULL
                    /\ isSubmitting' = TRUE
                    /\ inFlight' = Append(inFlight,
                          [createContact |->
                               BuildContact(formData, generateReferenceNumber(n)),
                           formData |-> formData])
    /\ UNCHANGED <<formData, uploadedFile, isDragging, location, inputEvents, call>>

RemoveAt(seq, i) == SubSeq(seq, 1, i - 1) \o SubSeq(seq, i + 1, Len(seq))

\* handleSubmit after its await, the promise of call i fulfilled
createContactResolved(i) ==
    /\ i \in DOMAIN inFlight
    /\ location' = ConfirmationUrl(inFlight[i].formData)
    /\ isSubmitting' = finallyIsSubmitting
    /\ inFlight' = RemoveAt(inFlight, i)
    /\ UNCHANGED <<formData, error, uploadedFile, isDragging, inputEvents, call>>

createContactRejected_retry(i, apiError) ==
    /\ i \in DOMAIN inFlight
    /\ error' = outerCatch([isError |-> TRUE, message |-> innerCatch(apiError)])
    /\ inFlight' = Append(RemoveAt(inFlight, i), inFlight[i])
    /\ UNCHANGED <<formData, isSubmitting, uploadedFile, isDragging, location,
                   inputEvents, call>>

\* handleSubmit after its await, the promise of call i rejected with apiError
createContactRejected(i, apiError) ==
    /\ i \in DOMAIN inFlight
    /\ error' = outerCatch([isError |-> TRUE, message |-> innerCatch(apiError)])
    /\ isSubmitting' = finallyIsSubmitting
    /\ inFlight' = RemoveAt(inFlight, i)
    /\ UNCHANGED <<formData, uploadedFile, isDragging, location, inputEvents, call>>

Next ==
    \/ \E name \in Fields : \E value \in InputValues(name) : handleInputChange(name, value)
    \/ handleDragEnter
    \/ handleDragLeave
    \/ handleDragOver
    \/ \E file \in {None} \cup {Some(f) : f \in Files} : handleDrop(file)
    \/ \E file \in {None} \cup {Some(f) : f \in Files} : handleFileChange(file)
    \/ removeFile
    \/ \E n \in RandomSamples : handleSubmit(n)
    \/ \E i \in DOMAIN inFlight : createContactResolved(i)
    \/ \E i \in DOMAIN inFlight : \E apiError \in ApiErrors : createContactRejected(i, apiError)

Spec == Init /\ [][Next]_vars

-----------------------------------------------------------------------------
(* The pure helpers, each called once on an input of its domain            *)

\* hours strings: the five keys, the empty string, and strings that are no key
HoursInputs ==
    DOMAIN amountMap \cup ObjectPrototype
    \cup {<<>>, Hours15, <<"2", "0", "0">>, <<" ", "2", "0">>, <<"2">>, <<"0">>}

CallGenerateReferenceNumber(n) ==
    /\ call = NoCall
    /\ call' = [fn |-> "generateReferenceNumber", arg |-> n,
                ret |-> generateReferenceNumber(n)]
    /\ UNCHANGED <<formData, isSubmitting, error, uploadedFile, isDragging,
                   inFlight, location, inputEvents>>

CallGetAmountFromHours(hours) ==
    /\ call = NoCall
    /\ call' = [fn |-> "getAmountFromHours", arg |-> hours,
                ret |-> getAmountFromHours(hours)]
    /\ UNCHANGED <<formData, isSubmitting, error, uploadedFile, isDragging,
                   inFlight, location, inputEvents>>

PureInit ==
    /\ formData = BlankForm
    /\ Mounted

PureNext ==
    \/ call = NoCall /\ \E n \in 0 .. RandomRange - 1 : CallGenerateReferenceNumber(n)
    \/ call = NoCall /\ \E hours \in HoursInputs : CallGetAmountFromHours(hours)

PureSpec == PureInit /\ [][PureNext]_vars

-----------------------------------------------------------------------------
(* Properties                                                              *)

\* a submit event is handled
SubmitStep == \E n \in RandomSamples : handleSubmit(n)

\* a submit that is not ignored: the page is the form and no run holds the latch
Idle == OnPage /\ ~isSubmitting

\* C1: duplicate submits while a createContact call is in flight are ignored:
\* at most one call is in flight at any time, and while isSubmitting is set no
\* step (a submit, an input change, any other event) issues a call.
C1_OneCallInFlight ==
    /\ [](Len(inFlight) <= 1)
    /\ [][isSubmitting => Len(inFlight') <= Len(inFlight)]_vars

\* C1 witness: a call is in flight, the applicant has edited the form since it
\* was issued, and a further submit event can arrive (and changes nothing).
C1_Witness ==
    /\ isSubmitting
    /\ Len(inFlight) = 1
    /\ formData # inFlight[1].formData
    /\ ENABLED (SubmitStep /\ UNCHANGED vars)

\* C2: a submit of a form with an empty required field ends with a validation
\* error set, issues no createContact call and does not navigate.
C2_EmptyRequiredBlocks ==
    [][(/\ Idle
        /\ \E f \in requiredFields : formData[f] = <<>>
        /\ SubmitStep)
       => (/\ error' \in {EmailInvalidMsg, MissingFieldsMsg}
           /\ inFlight' = inFlight
           /\ location' = location)]_vars

\* C2 witness: a submit was rejected for a missing field of a form whose email
\* is well-formed, and nothing is in flight.
C2_Witness ==
    /\ error = MissingFieldsMsg
    /\ includes(formData["email"], "@")
    /\ \E f \in requiredFields : formData[f] = <<>>
    /\ inFlight = <<>>
    /\ location = NoLocation

\* C3: a submit of a form whose email holds no '@' is rejected with the
\* email-invalid error and issues no createContact call, whatever the other
\* fields hold.
C3_EmailWithoutAtRejected ==
    [][(/\ Idle
        /\ \A i \in DOMAIN formData["email"] : formData["email"][i] # "@"
        /\ SubmitStep)
       => (/\ error' = EmailInvalidMsg
           /\ inFlight' = inFlight
           /\ location' = location)]_vars

\* C3 witness: the email-invalid error was raised for a form all of whose other
\* required fields are filled in.
C3_Witness ==
    /\ error = EmailInvalidMsg
    /\ formData["email"] = EmailNoAt
    /\ \A f \in requiredFields : formData[f] # <<>>
    /\ inFlight = <<>>

\* a submit that issues a createContact call
IssueCall == SubmitStep /\ Len(inFlight') = Len(inFlight) + 1

\* C4: the latch is cleared whatever the outcome: when no createContact call is
\* pending isSubmitting is false, and a valid form can then be submitted again
\* with a new call issued.
C4_LatchCleared ==
    /\ inFlight = <<>> => ~isSubmitting
    /\ (/\ OnPage
        /\ inFlight = <<>>
        /\ includes(formData["email"], "@")
        /\ \A f \in requiredFields : formData[f] # <<>>) => ENABLED IssueCall

\* C4 witness: a call failed remotely, and the form is idle again.
C4_Witness ==
    /\ error \in {GenericConnMsg, "Contact already exist"}
    /\ ~isSubmitting
    /\ inFlight = <<>>
    /\ location = NoLocation

\* the 'message' field of a response body, empty when the body has none
MessageFieldOf(text) == IF text = TextWithMessage THEN "Contact already exist" ELSE ""

\* C5: when the createContact call fails, the error set is the 'message' field
\* of the response body when the error carries a response text, the generic
\* connectivity message when it does not, and nothing else, for every failure.
C5_RemoteMessageOrGeneric ==
    [][\A i \in DOMAIN inFlight : \A apiError \in ApiErrors :
          createContactRejected(i, apiError)
          => error' = IF apiError.hasResponse /\ apiError.text # ""
                      THEN MessageFieldOf(apiError.text)
                      ELSE GenericConnMsg]_vars

\* the extension of a file name: the text after its last '.', in lower case;
\* a name without '.' has none
HasAllowedExtension(name) ==
    LET dots == {i \in DOMAIN name : name[i] = "."}
    IN /\ dots # {}
       /\ LET last == CHOOSE i \in dots : \A j \in dots : j <= i
          IN toLowerCase(SubSeq(name, last + 1, Len(name))) \in {Pdf, Doc, Docx}

\* C6: by the picker and by a drop alike, a file of at most 10 MB whose
\* extension is pdf, doc or docx becomes the uploaded file with the error
\* cleared, and every other file is rejected.
C6_AcceptedBySizeAndExtension ==
    [][\A f \in Files :
          (handleFileChange(Some(f)) \/ handleDrop(Some(f)))
          => IF f.size <= 10 * 1024 * 1024 /\ HasAllowedExtension(f.name)
             THEN uploadedFile' = Some(f) /\ error' = NULL
             ELSE uploadedFile' = None /\ error' \in {FileSizeMsg, FileTypeMsg}]_vars

\* C7: a file that fails validation leaves an error set and no uploaded file,
\* so the uploaded file, when there is one, is of at most 10 MB and has the
\* extension pdf, doc or docx.
C7_UploadedFileIsValid ==
    uploadedFile # None =>
        /\ uploadedFile[1].size <= 10 * 1024 * 1024
        /\ HasAllowedExtension(uploadedFile[1].name)

\* the table of the specification: hours -> amount, empty for any other string
ExpectedAmount(hours) ==
    CASE hours = <<"1", "0">> -> <<"£", "1", "6", "5">>
      [] hours = <<"2", "0">> -> <<"£", "3", "3", "0">>
      [] hours = <<"3", "0">> -> <<"£", "4", "9", "5">>
      [] hours = <<"4", "0">> -> <<"£", "6", "6", "0">>
      [] hours = <<"5", "0">> -> <<"£", "8", "2", "5">>
      [] OTHER -> <<>>

\* C8: getAmountFromHours gives the amount of the table for the five keys and
\* the empty string for every other string.
C8_AmountOfHours ==
    call.fn = "getAmountFromHours" =>
        call.ret = [type |-> "string", value |-> ExpectedAmount(call.arg)]

\* the form is valid: every required field filled in, the email holding an '@'
ValidForm ==
    /\ \A f \in requiredFields : formData[f] # <<>>
    /\ \E i \in DOMAIN formData["email"] : formData["email"][i] = "@"

\* the URL encoding of the valid emails of the model
ExpectedEncodedEmail(email) ==
    CASE email = EmailPlain -> <<"a", "%", "4", "0", "b">>
      [] email = EmailPlus -> <<"a", "%", "2", "B", "c", "%", "4", "0", "b">>

\* the reference codes of the random integers handleSubmit draws in Spec
ExpectedReferences ==
    {<<"E", "D", "I", "0", "0", "0", "4", "2">>,
     <<"E", "D", "I", "1", "2", "3", "4", "5">>}

\* C9: a submit of a valid form issues exactly one createContact call, with the
\* form's email, FIRSTNAME, LASTNAME and HOURS, the AMOUNT of the table for
\* those hours, the generated reference code as UNIQUE and list id 7; when the
\* call succeeds the page navigates to the confirmation URL with the submitted
\* email URL-encoded.
C9_ValidSubmitEndToEnd ==
    /\ [][(Idle /\ ValidForm /\ SubmitStep)
          => /\ Len(inFlight') = Len(inFlight) + 1
             /\ LET c == inFlight'[Len(inFlight')].createContact
                IN /\ c.email = formData["email"]
                   /\ c.attributes.FIRSTNAME = formData["firstName"]
                   /\ c.attributes.LASTNAME = formData["lastName"]
                   /\ c.attributes.HOURS = formData["hoursPerWeek"]
                   /\ c.attributes.AMOUNT =
                        [type |-> "string",
                         value |-> ExpectedAmount(formData["hoursPerWeek"])]
                   /\ c.attributes.UNIQUE \in ExpectedReferences
                   /\ c.listIds = <<7>>]_vars
    /\ [][\A i \in DOMAIN inFlight :
             createContactResolved(i)
             => location' = <<ConfirmationBase>>
                            \o ExpectedEncodedEmail(inFlight[i].createContact.email)]_vars

\* C9 witness: the call for hours 20 and an email with '+' and '@' succeeded and
\* the page navigated.
C9_Witness ==
    /\ location = <<ConfirmationBase, "a", "%", "2", "B", "c", "%", "4", "0", "b">>
    /\ formData["hoursPerWeek"] = Hours20
    /\ inFlight = <<>>

DigitValue(c) == CHOOSE d \in 0 .. 9 : Digit(d) = c

\* C10: the reference code is 'EDI' followed by exactly 5 decimal digits, which
\* are the random integer zero-padded, for every integer in [0, 100000).
C10_ReferenceFormat ==
    call.fn = "generateReferenceNumber" =>
        LET r == call.ret
        IN /\ Len(r) = 8
           /\ SubSeq(r, 1, 3) = <<"E", "D", "I">>
           /\ \A i \in 4 .. 8 : r[i] \in {Digit(d) : d \in 0 .. 9}
           /\ call.arg = DigitValue(r[4]) * 10000 + DigitValue(r[5]) * 1000
                         + DigitValue(r[6]) * 100 + DigitValue(r[7]) * 10
                         + DigitValue(r[8])

\* C10 witness: the code of a random integer below 10000, zero-padded.
C10_Witness ==
    /\ call.fn = "generateReferenceNumber"
    /\ call.arg = 42
    /\ call.ret = <<"E", "D", "I", "0", "0", "0", "4", "2">>

\* the events a drop can carry
DropEvents == {None} \cup {Some(f) : f \in Files}

\* C11 as claimed: each of the four drag-and-drop handlers leaves formData,
\* uploadedFile, error and isSubmitting unchanged, and a second delivery of the
\* same event changes nothing more.
C11_DragHandlersOnlyHighlight ==
    /\ [][(\/ handleDragEnter
           \/ handleDragLeave
           \/ handleDragOver
           \/ \E file \in DropEvents : handleDrop(file))
          => UNCHANGED <<formData, uploadedFile, error, isSubmitting>>]_vars
    /\ [][handleDragEnter => ~(ENABLED (handleDragEnter /\ vars' # vars))']_vars
    /\ [][handleDragLeave => ~(ENABLED (handleDragLeave /\ vars' # vars))']_vars
    /\ [][handleDragOver => ~(ENABLED (handleDragOver /\ vars' # vars))']_vars
    /\ [][\A file \in DropEvents :
             handleDrop(file) => ~(ENABLED (handleDrop(file) /\ vars' # vars))']_vars

\* C11 amended: handleDragEnter, handleDragLeave and handleDragOver change
\* nothing but isDragging; handleDrop clears isDragging and, when a file is
\* dropped, sets uploadedFile and error to what the validation of that file
\* gives (and leaves them alone when no file is dropped); all four leave
\* formData and isSubmitting unchanged, and a second delivery of the same event
\* changes nothing more.
C11_DragHandlersAmended ==
    /\ [][(handleDragEnter \/ handleDragLeave \/ handleDragOver)
          => UNCHANGED <<formData, uploadedFile, error, isSubmitting>>]_vars
    /\ [][handleDragEnter => ~(ENABLED (handleDragEnter /\ vars' # vars))']_vars
    /\ [][handleDragLeave => ~(ENABLED (handleDragLeave /\ vars' # vars))']_vars
    /\ [][handleDragOver => ~(ENABLED (handleDragOver /\ vars' # vars))']_vars
    /\ [][\A file \in DropEvents :
             handleDrop(file)
             => /\ UNCHANGED <<formData, isSubmitting>>
                /\ isDragging' = FALSE
                /\ file = None => UNCHANGED <<uploadedFile, error>>
                /\ file # None =>
                     IF file[1].size <= 10 * 1024 * 1024
                        /\ splitPop(toLowerCase(file[1].name)) \in {Pdf, Doc, Docx}
                     THEN uploadedFile' = file /\ error' = NULL
                     ELSE uploadedFile' = None
                          /\ error' \in {FileSizeMsg, FileTypeMsg}
                /\ ~(ENABLED (handleDrop(file) /\ vars' # vars))']_vars

\* C11 witness: a drop onto the highlighted zone replaced the held file by a
\* rejection: the highlight is off, the error set and no file held, while a
\* call is in flight and the form is as submitted.
C11_Witness ==
    /\ ~isDragging
    /\ error = FileTypeMsg
    /\ uploadedFile = None
    /\ isSubmitting
    /\ Len(inFlight) = 1
    /\ formData = inFlight[1].formData

\* C12: no retries: no step issues more than one createContact call, a call
\* is issued only by a submit event handled when no earlier call is pending,
\* and a call that fails leaves the pending calls one fewer: it is not
\* re-issued.
C12_NoRetries ==
    /\ [][Len(inFlight') <= Len(inFlight) + 1]_vars
    /\ [][Len(inFlight') > Len(inFlight) => SubmitStep /\ inFlight = <<>>]_vars
    /\ [][\A i \in DOMAIN inFlight : \A apiError \in ApiErrors :
             createContactRejected(i, apiError)
             => Len(inFlight') = Len(inFlight) - 1]_vars

\* C12 witness: a call failed with the remote message, no call is pending, and
\* the valid form waits for the applicant to submit it again.
C12_Witness ==
    /\ error = "Contact already exist"
    /\ inFlight = <<>>
    /\ Idle
    /\ ValidForm

\* C13: the page navigates only when a createContact call has succeeded, to
\* the confirmation URL of the email sent in that call, whatever the email
\* field holds by then; and handleSubmit, before and after its await, never
\* changes formData or uploadedFile.
C13_NavigationAfterSuccess ==
    /\ [][location' # location
          => \E i \in DOMAIN inFlight :
                /\ createContactResolved(i)
                /\ location' = <<ConfirmationBase>>
                               \o ExpectedEncodedEmail(inFlight[i].createContact.email)]_vars
    /\ [][(\/ SubmitStep
           \/ \E i \in DOMAIN inFlight : createContactResolved(i)
           \/ \E i \in DOMAIN inFlight : \E apiError \in ApiErrors :
                 createContactRejected(i, apiError))
          => UNCHANGED <<formData, uploadedFile>>]_vars

\* C13 witness: the call sent a@b, the applicant changed the email field to
\* a+c@b while it was in flight, and the page navigated with a@b encoded.
C13_Witness ==
    /\ location = <<ConfirmationBase, "a", "%", "4", "0", "b">>
    /\ formData["email"] = EmailPlus
    /\ inFlight = <<>>

====
